---------------------------- MODULE Spec2Model ----------------------------
(***************************************************************************)
(* AttentionTracker of noesis-core (src/unnamed/part_000, lines 8-307) as  *)
(* a state machine.                                                        *)
(*                                                                         *)
(* Numbers.  Scores and cognitive load are kept in hundredths (One = 1.00),*)
(* focusStability in units of 1 / StabUnit so that the population variance *)
(* of up to MaxTicks scores is an exact integer.                           *)
(*                                                                         *)
(* Asynchrony.  startTracking is an async function: it runs synchronously  *)
(* up to `await navigator.mediaDevices.getUserMedia`, is resumed when that *)
(* promise settles, runs up to the `await new Promise` that waits for      *)
(* onloadedmetadata, and is resumed again when the video element fires     *)
(* that event.  Each of these stretches is one action.  stopTracking,      *)
(* onAttentionChange and the interval callback contain no await and are    *)
(* one action each.                                                        *)
(*                                                                         *)
(* Spec is the tracker driven by a caller that awaits every startTracking  *)
(* and stopTracking before issuing the next one, as the hook in            *)
(* src/client/src/hooks/useNoesisSDK.ts (lines 90 and 108) does.  The      *)
(* guard Awaited states that discipline; every action below is written     *)
(* without it, so that a next-state relation without the guard gives the   *)
(* tracker under overlapping calls: SpecOverlap.  SpecScore is the tracker *)
(* with every draw of the score arithmetic, SpecStability applies          *)
(* calculateStabilityScore to windows of scores, and SpecServer is the     *)
(* server: MemStorage and the handlers of src/server/routes.ts.            *)
(* SpecEngagement is the engagement handler alone and SpecOrchestration    *)
(* the two orchestration handlers over the inputs of the attention score.  *)
(***************************************************************************)
EXTENDS Integers, Sequences, FiniteSets, TLC

VARIABLES
    isTracking,        \* part_000:11
    webcamStream,      \* part_000:12   id of the MediaStream, NoStream = null
    videoElement,      \* part_000:13
    trackingInterval,  \* part_000:14   id returned by setInterval, NoTimer = null
    targetElement,     \* part_000:15
    changeCallbacks,   \* part_000:16   sequence of observer behaviours
    attentionData,     \* part_000:18   the object this.attentionData refers to
    attentionHistory,  \* part_000:27
    options,           \* part_000:9
    timers,            \* window: ids of the intervals that have not been cleared
    streams,           \* navigator: ids of the streams whose tracks are live
    onloadedmetadata,  \* <video>: the start call whose resolve() the handler holds
    clock,             \* the latest value Date.now() has returned
    ticks,             \* number of interval callbacks that have run
    pending,           \* startTracking calls suspended at an await
    observed,          \* per observer: what its callback has been handed
    returns,           \* caller: the start/stop call that settled last
    calls,             \* the observers the latest tick has called, in call order
    learningEvents,    \* storage.ts:20   MemStorage.learningEvents
    currentEventId,    \* storage.ts:22   MemStorage.currentEventId
    inflight,          \* routes.ts: requests suspended at `await openai...create`
    response           \* routes.ts: what the handler that finished last sent

vars == << isTracking, webcamStream, videoElement, trackingInterval,
           targetElement, changeCallbacks, attentionData, attentionHistory,
           options, timers, streams, onloadedmetadata, clock, ticks,
           pending, observed, returns, calls,
           learningEvents, currentEventId, inflight, response >>

serverVars == << learningEvents, currentEventId, inflight, response >>

clientVars == << isTracking, webcamStream, videoElement, trackingInterval,
                 targetElement, changeCallbacks, attentionData,
                 attentionHistory, options, timers, streams, onloadedmetadata,
                 clock, ticks, pending, observed, returns, calls >>

-----------------------------------------------------------------------------
(* Bounds of the model *)

MaxTicks == 2
MaxObservers == 2
MaxScoreTicks == 3
MaxHistory == 5
MaxEvents == 2
MaxInflight == 1
MaxPending == 2
MaxLive == 2

(* Program constants, in hundredths *)

One == 100
AttentiveGain == 5
InattentiveLoss == 8
BaseLoad == 30
DefaultHistorySize == 20
VarianceWeight == 5

(* Math.random() * 0.02, * 0.03 and * 0.4: the ends of each range *)
GainDraws == {0, 1}
LossDraws == {0, 2}
LoadDraws == {0, 39}

(* The draws Spec feeds the ticks: the life cycle of the tracker does not  *)
(* depend on the random numbers, so Spec takes Math.random() = 0 for the   *)
(* score and the top of the range for the load.                            *)
SteadyDraws == GainDraws \cap LossDraws
SteadyLoads == {l \in LoadDraws : \A m \in LoadDraws : m <= l}

NoStream == 0
NoTimer == 0
NoCall == 0
NoSample == 0
NoTarget == "null"
NoVideo == "null"
Targets == {NoTarget, "content"}
ObserverKinds == {"ok", "throws", "stops"}

EmptyOptions == [k \in {} |-> 0]
HistorySizeInputs == {2}
Overrides == {EmptyOptions, [webcam |-> FALSE], [webcam |-> TRUE]}

Max(a, b) == IF a >= b THEN a ELSE b
Min(a, b) == IF a <= b THEN a ELSE b

RECURSIVE Gcd(_, _)
Gcd(a, b) == IF b = 0 THEN a ELSE Gcd(b, a % b)

RECURSIVE LcmUpTo(_)
LcmUpTo(n) == IF n <= 1 THEN 1
              ELSE LET l == LcmUpTo(n - 1) IN (l * n) \div Gcd(l, n)

HistoryLcm == LcmUpTo(MaxHistory)
StabUnit == One * One * HistoryLcm * HistoryLcm

RECURSIVE SumSeq(_)
SumSeq(s) == IF s = << >> THEN 0 ELSE Head(s) + SumSeq(Tail(s))

RECURSIVE SumSquares(_)
SumSquares(s) == IF s = << >> THEN 0 ELSE Head(s) * Head(s) + SumSquares(Tail(s))

Last(s) == s[Len(s)]

(* reduce((sum, val) => sum + Math.pow(val - mean, 2), 0), the scores taken *)
(* in units of 1 / (One * HistoryLcm) as the mean is                       *)
RECURSIVE SumSquaredDeviations(_, _)
SumSquaredDeviations(s, mean) ==
    IF s = << >> THEN 0
    ELSE (Head(s) * HistoryLcm - mean) * (Head(s) * HistoryLcm - mean)
         + SumSquaredDeviations(Tail(s), mean)

BoundedSeq(S, n) == UNION {[1..m -> S] : m \in 0..n}

-----------------------------------------------------------------------------
(* The tracker and its environment as one record, threaded through the     *)
(* operators that model the methods.                                       *)

State ==
    [ isTracking |-> isTracking, webcamStream |-> webcamStream,
      videoElement |-> videoElement, trackingInterval |-> trackingInterval,
      targetElement |-> targetElement, changeCallbacks |-> changeCallbacks,
      attentionData |-> attentionData, attentionHistory |-> attentionHistory,
      options |-> options, timers |-> timers, streams |-> streams,
      onloadedmetadata |-> onloadedmetadata, clock |-> clock, ticks |-> ticks,
      pending |-> pending, observed |-> observed, returns |-> returns,
      calls |-> calls ]

Becomes(S) ==
    /\ isTracking' = S.isTracking
    /\ webcamStream' = S.webcamStream
    /\ videoElement' = S.videoElement
    /\ trackingInterval' = S.trackingInterval
    /\ targetElement' = S.targetElement
    /\ changeCallbacks' = S.changeCallbacks
    /\ attentionData' = S.attentionData
    /\ attentionHistory' = S.attentionHistory
    /\ options' = S.options
    /\ timers' = S.timers
    /\ streams' = S.streams
    /\ onloadedmetadata' = S.onloadedmetadata
    /\ clock' = S.clock
    /\ ticks' = S.ticks
    /\ pending' = S.pending
    /\ observed' = S.observed
    /\ returns' = S.returns
    /\ calls' = S.calls
    /\ UNCHANGED serverVars

(* The caller sees the promise of a call settle: which method, the value   *)
(* it resolved with, and whether the tracker was tracking when it was      *)
(* called                                                                  *)
NoReturn == [op |-> "none", value |-> "void", wasTracking |-> FALSE]

Settle(S, op, value, wasTracking) ==
    [S EXCEPT !.returns = [op |-> op, value |-> value, wasTracking |-> wasTracking]]

(* new AttentionTracker(options): `options.historySize || 20` *)
constructor(historySize) ==
    [historySize |-> IF historySize = 0 THEN DefaultHistorySize ELSE historySize]

InitialAttentionData ==
    [ score |-> 0, focusStability |-> 0, cognitiveLoad |-> BaseLoad,
      gazePoint |-> "origin", timestamp |-> 0, status |-> "inactive" ]

(* { ...this.options, ...options } *)
Merge(a, b) ==
    [k \in DOMAIN a \cup DOMAIN b |-> IF k \in DOMAIN b THEN b[k] ELSE a[k]]

(* this.options.webcam !== false : an absent key is undefined, not false *)
WantsWebcam(o) == ~("webcam" \in DOMAIN o /\ o.webcam = FALSE)

FreshId(used) == CHOOSE i \in 1..(Cardinality(used) + 1) : i \notin used


-----------------------------------------------------------------------------
(* Methods of AttentionTracker *)

(* startTrackingLoop: window.setInterval hands out an id no live interval has *)
startTrackingLoop(S) ==
    LET id == FreshId(S.timers)
    IN [S EXCEPT !.timers = @ \cup {id}, !.trackingInterval = id]

(* startTracking from `this.isTracking = true` to `return true` *)
startTrackingTail(S) ==
    Settle(startTrackingLoop([S EXCEPT !.isTracking = TRUE,
                                       !.attentionData.status = "tracking"]),
           "startTracking", "true", FALSE)

(* What a suspended startTracking remembers of the state it was called in *)
Entry(S) ==
    [ targetElement |-> S.targetElement, options |-> S.options,
      attentionHistory |-> S.attentionHistory, attentionData |-> S.attentionData ]

(* startTracking without its `if (this.isTracking)` guard *)
startTrackingUnguarded(S, target, overrides) ==
    LET S1 == [S EXCEPT !.options = Merge(@, overrides),
                        !.targetElement = target]
    IN IF WantsWebcam(S1.options)
       THEN [S1 EXCEPT !.pending = @ \cup
                {[ id |-> FreshId({p.id : p \in S.pending}),
                   stage |-> "getUserMedia", entry |-> Entry(S) ]}]
       ELSE startTrackingTail(S1)

(* startTracking up to its first await, or to its return when it has none *)
startTracking(S, target, overrides) ==
    IF S.isTracking
    THEN Settle(S, "startTracking", "true", TRUE)
    ELSE LET S1 == [S EXCEPT !.options = Merge(@, overrides),
                             !.targetElement = target]
         IN IF WantsWebcam(S1.options)
            THEN [S1 EXCEPT !.pending = @ \cup
                     {[ id |-> FreshId({p.id : p \in S.pending}),
                        stage |-> "getUserMedia", entry |-> Entry(S) ]}]
            ELSE startTrackingTail(S1)

(* initializeWebcam after getUserMedia resolved, up to `await new Promise` *)
initializeWebcam(S, call) ==
    LET id == FreshId(S.streams)
    IN [S EXCEPT !.webcamStream = id,
                 !.streams = @ \cup {id},
                 !.videoElement = "video",
                 !.onloadedmetadata = call.id,
                 !.pending = (@ \ {call}) \cup {[call EXCEPT !.stage = "metadata"]}]

(* a catch block that swallows the failure and carries on *)
startTrackingCatchSwallows(S, call) ==
    startTrackingTail([S EXCEPT !.pending = @ \ {call}])

(* getUserMedia rejected: initializeWebcam rethrows, startTracking catches *)
startTrackingCatch(S, call) ==
    Settle([S EXCEPT !.pending = @ \ {call}], "startTracking", "false", FALSE)

(* the handler of onloadedmetadata resolves; startTracking runs to its return. *)
(* The handler stays on the element, but resolve() of a settled promise does   *)
(* nothing, so it is modelled as removed.                                      *)
startTrackingResume(S, call) ==
    startTrackingTail([S EXCEPT !.pending = @ \ {call},
                                !.onloadedmetadata = NoCall])

(* stopTracking as it would be with one statement missing or misplaced *)
stopTrackingWith(S, clearsInterval, stopsTracks, resetsStatus, guardFirst) ==
    LET S0 == IF guardFirst THEN S ELSE [S EXCEPT !.targetElement = NoTarget]
    IN IF ~S.isTracking
       THEN Settle(S0, "stopTracking", "void", FALSE)
       ELSE LET S1 == IF S0.trackingInterval # NoTimer
                      THEN [S0 EXCEPT !.timers = IF clearsInterval
                                                 THEN @ \ {S0.trackingInterval}
                                                 ELSE @,
                                      !.trackingInterval = NoTimer]
                      ELSE S0
                S2 == IF S1.webcamStream # NoStream
                      THEN [S1 EXCEPT !.streams = IF stopsTracks
                                                  THEN @ \ {S1.webcamStream}
                                                  ELSE @,
                                      !.webcamStream = NoStream]
                      ELSE S1
            IN Settle([S2 EXCEPT !.videoElement = NoVideo,
                                 !.isTracking = FALSE,
                                 !.attentionData.status =
                                     IF resetsStatus THEN "inactive" ELSE @],
                      "stopTracking", "void", TRUE)

stopTrackingKeepsStatus(S) == stopTrackingWith(S, TRUE, TRUE, FALSE, TRUE)
stopTrackingKeepsInterval(S) == stopTrackingWith(S, FALSE, TRUE, TRUE, TRUE)
stopTrackingKeepsTracks(S) == stopTrackingWith(S, TRUE, FALSE, TRUE, TRUE)
stopTrackingCleansUnguarded(S) == stopTrackingWith(S, TRUE, TRUE, TRUE, FALSE)

stopTracking(S) ==
    IF ~S.isTracking
    THEN Settle(S, "stopTracking", "void", FALSE)
    ELSE LET S1 == IF S.trackingInterval # NoTimer
                   THEN [S EXCEPT !.timers = @ \ {S.trackingInterval},
                                  !.trackingInterval = NoTimer]
                   ELSE S
             S2 == IF S1.webcamStream # NoStream
                   THEN [S1 EXCEPT !.streams = @ \ {S1.webcamStream},
                                   !.webcamStream = NoStream]
                   ELSE S1
         IN Settle([S2 EXCEPT !.videoElement = NoVideo,
                              !.isTracking = FALSE,
                              !.attentionData.status = "inactive"],
                   "stopTracking", "void", TRUE)

onAttentionChange(S, kind) ==
    [S EXCEPT !.changeCallbacks = Append(@, kind),
              !.observed = Append(@, [ref |-> NoSample, seen |-> InitialAttentionData])]

getCurrentData(S) == S.attentionData

(* simulateGazeTracking: the points it can return, with whether the point  *)
(* lies in the target's bounding rectangle                                 *)
simulateGazeTracking(S) ==
    IF S.targetElement = NoTarget
    THEN {[kind |-> "viewportCenter", inRect |-> FALSE]}
    ELSE {[kind |-> "nearTarget", inRect |-> TRUE],
          [kind |-> "elsewhere", inRect |-> FALSE]}

(* isGazeOnTarget without its null check *)
isGazeOnTargetUnbound(S, gazePoint) ==
    IF S.targetElement = NoTarget THEN TRUE ELSE gazePoint.inRect

isGazeOnTarget(S, gazePoint) ==
    IF S.targetElement = NoTarget THEN FALSE ELSE gazePoint.inRect

(* calculateStabilityScore with the squared deviations summed but not      *)
(* divided by the length                                                   *)
calculateStabilityScoreUndivided(history) ==
    LET n == Len(history)
        mean == SumSeq(history) * (HistoryLcm \div n)
    IN IF n < 2 THEN StabUnit
       ELSE Max(0, Min(StabUnit,
                StabUnit - VarianceWeight * SumSquaredDeviations(history, mean)))

(* 1 - variance * 5, clamped, in units of 1 / StabUnit.  The mean is exact *)
(* in units of 1 / (One * HistoryLcm) and the variance in units of         *)
(* 1 / StabUnit because the length divides HistoryLcm.  In IEEE doubles a  *)
(* window of equal scores has deviations of at most a few ulps, whose      *)
(* squares vanish against 1, so the exact result is the computed one there.*)
calculateStabilityScore(history) ==
    LET n == Len(history)
        mean == SumSeq(history) * (HistoryLcm \div n)
        variance == SumSquaredDeviations(history, mean) \div n
    IN IF n < 2 THEN StabUnit
       ELSE Max(0, Min(StabUnit, StabUnit - VarianceWeight * variance))

(* One callback of changeCallbacks.forEach: it is handed this.attentionData *)
(* and then does what its kind does; what it throws is caught.  The observer*)
(* keeps the reference (the object made by tick number `ref`) and what it   *)
(* read from it when called.                                                *)
InvokeCallback(S, i) ==
    LET S1 == [S EXCEPT !.observed[i] = [ref |-> S.ticks, seen |-> S.attentionData],
                        !.calls = Append(@, i)]
    IN IF S.changeCallbacks[i] = "stops" THEN stopTracking(S1) ELSE S1

(* forEach without the try/catch: the first throw ends the loop *)
RECURSIVE notifyFromUncaught(_, _)
notifyFromUncaught(S, i) ==
    IF i > Len(S.changeCallbacks) THEN S
    ELSE IF S.changeCallbacks[i] = "throws" THEN InvokeCallback(S, i)
    ELSE notifyFromUncaught(InvokeCallback(S, i), i + 1)

(* forEach from the last callback to the first *)
RECURSIVE notifyFromReversed(_, _)
notifyFromReversed(S, i) ==
    IF i > Len(S.changeCallbacks) THEN S
    ELSE InvokeCallback(notifyFromReversed(S, i + 1), i)

(* forEach that ends as soon as a callback has stopped the tracker *)
RECURSIVE notifyFromWhileTracking(_, _)
notifyFromWhileTracking(S, i) ==
    IF i > Len(S.changeCallbacks) \/ (i > 1 /\ ~S.isTracking) THEN S
    ELSE notifyFromWhileTracking(InvokeCallback(S, i), i + 1)

RECURSIVE notifyFrom(_, _)
notifyFrom(S, i) ==
    IF i > Len(S.changeCallbacks) THEN S
    ELSE notifyFrom(InvokeCallback(S, i), i + 1)

notifyCallbacks(S) == notifyFrom(S, 1)

(* Date.now(): the wall clock read again, not earlier than the last reading *)
DateNow(S) == {S.clock, S.clock + 1}

(* The reading Spec gives the ticks: a clock that has moved on since the   *)
(* last reading.  SpecScore and SpecOverlap take every reading of DateNow. *)
SteadyNow(S) == {n \in DateNow(S) : \A m \in DateNow(S) : m <= n}

Draws(attentive) == IF attentive THEN GainDraws ELSE LossDraws

(* updateAttentionData with another lower clamp or another loss per tick *)
updateAttentionDataWith(S, now, gazePoint, draw, load, floor, loss) ==
    LET previousScore == S.attentionData.score
        newScore == IF isGazeOnTarget(S, gazePoint)
                    THEN Min(One, previousScore + AttentiveGain + draw)
                    ELSE Max(floor, previousScore - loss - draw)
        pushed == Append(S.attentionHistory, newScore)
        history == IF "historySize" \in DOMAIN S.options
                      /\ Len(pushed) > S.options.historySize
                   THEN Tail(pushed) ELSE pushed
    IN notifyCallbacks(
         [S EXCEPT !.clock = now,
                   !.ticks = @ + 1,
                   !.calls = << >>,
                   !.attentionHistory = history,
                   !.attentionData =
                       [ score |-> newScore,
                         focusStability |-> calculateStabilityScore(history),
                         cognitiveLoad |-> BaseLoad + load,
                         gazePoint |-> gazePoint.kind,
                         timestamp |-> now,
                         status |-> "tracking" ]])

updateAttentionDataUnclamped(S, now, gazePoint, draw, load) ==
    updateAttentionDataWith(S, now, gazePoint, draw, load, 0 - One, InattentiveLoss)

updateAttentionDataSymmetric(S, now, gazePoint, draw, load) ==
    updateAttentionDataWith(S, now, gazePoint, draw, load, 0, AttentiveGain)

updateAttentionData(S, now, gazePoint, draw, load) ==
    LET previousScore == S.attentionData.score
        newScore == IF isGazeOnTarget(S, gazePoint)
                    THEN Min(One, previousScore + AttentiveGain + draw)
                    ELSE Max(0, previousScore - InattentiveLoss - draw)
        pushed == Append(S.attentionHistory, newScore)
        history == IF "historySize" \in DOMAIN S.options
                      /\ Len(pushed) > S.options.historySize
                   THEN Tail(pushed) ELSE pushed
    IN notifyCallbacks(
         [S EXCEPT !.clock = now,
                   !.ticks = @ + 1,
                   !.calls = << >>,
                   !.attentionHistory = history,
                   !.attentionData =
                       [ score |-> newScore,
                         focusStability |-> calculateStabilityScore(history),
                         cognitiveLoad |-> BaseLoad + load,
                         gazePoint |-> gazePoint.kind,
                         timestamp |-> now,
                         status |-> "tracking" ]])

-----------------------------------------------------------------------------
(* Actions *)

(* new MemStorage(), and no request received yet *)
(* an optional number the request body does not carry *)
Absent == 0 - 1

(* what a response is the answer to, as far as the handlers read it: the    *)
(* attention score of the request body, -1 when it carries none, and its   *)
(* previousInterventions                                                   *)
NoRequest == [score |-> Absent, previousInterventions |-> {}]

NoResponse == [status |-> 0, route |-> "none", body |-> "none",
               llm |-> "none", llmCalls |-> 0, request |-> NoRequest]

InitServer ==
    /\ learningEvents = << >>
    /\ currentEventId = 1
    /\ inflight = {}
    /\ response = NoResponse

InitTracker ==
    /\ isTracking = FALSE
    /\ webcamStream = NoStream
    /\ videoElement = NoVideo
    /\ trackingInterval = NoTimer
    /\ targetElement = NoTarget
    /\ changeCallbacks = << >>
    /\ attentionData = InitialAttentionData
    /\ attentionHistory = << >>
    /\ options \in {constructor(h) : h \in HistorySizeInputs}
    /\ timers = {}
    /\ streams = {}
    /\ onloadedmetadata = NoCall
    /\ clock = 0
    /\ ticks = 0
    /\ pending = {}
    /\ observed = << >>
    /\ returns = NoReturn
    /\ calls = << >>

Init == InitTracker /\ InitServer

(* The caller has no call in flight *)
Awaited == pending = {}

StartTracking(target, overrides) ==
    Becomes(startTracking(State, target, overrides))

GetUserMediaResolved(call) ==
    /\ call \in pending
    /\ call.stage = "getUserMedia"
    /\ Becomes(initializeWebcam(State, call))

GetUserMediaRejected(call) ==
    /\ call \in pending
    /\ call.stage = "getUserMedia"
    /\ Becomes(startTrackingCatch(State, call))

LoadedMetadata(call) ==
    /\ call \in pending
    /\ call.stage = "metadata"
    /\ onloadedmetadata = call.id
    /\ Becomes(startTrackingResume(State, call))

StopTracking == Becomes(stopTracking(State))

Subscribe(kind) ==
    /\ Len(changeCallbacks) < MaxObservers
    /\ Becomes(onAttentionChange(State, kind))

(* The interval `timer` fires: the callback of setInterval runs *)
IntervalFires(timer, now, gazePoint, draw, load) ==
    /\ timer \in timers
    /\ draw \in Draws(isGazeOnTarget(State, gazePoint))
    /\ Becomes(updateAttentionData(State, now, gazePoint, draw, load))

Tick(timer, now, gazePoint, draw, load) ==
    /\ ticks < MaxTicks
    /\ IntervalFires(timer, now, gazePoint, draw, load)

Next ==
    \/ \E t \in Targets, o \in Overrides : Awaited /\ StartTracking(t, o)
    \/ \E c \in pending : GetUserMediaResolved(c)
    \/ \E c \in pending : GetUserMediaRejected(c)
    \/ \E c \in pending : LoadedMetadata(c)
    \/ Awaited /\ StopTracking
    \/ \E k \in ObserverKinds : Subscribe(k)
    \/ \E timer \in timers, now \in SteadyNow(State),
          g \in simulateGazeTracking(State),
          d \in SteadyDraws, l \in SteadyLoads :
            Tick(timer, now, g, d, l)

Spec == Init /\ [][Next]_vars

(* SpecOverlap: the caller does not await; startTracking and stopTracking  *)
(* are called while earlier startTracking calls are suspended.  A call is  *)
(* left out when it would take the suspended calls past MaxPending, and a  *)
(* step that acquires a stream or sets an interval when MaxLive of them    *)
(* are live already.                                                       *)
Bounded ==
    /\ Cardinality(pending) < MaxPending
    /\ Cardinality(timers) < MaxLive
    /\ Cardinality(streams) < MaxLive

StreamsBounded == Cardinality(streams) < MaxLive

TimersBounded == Cardinality(timers) < MaxLive

NextOverlap ==
    \/ \E t \in Targets, o \in Overrides : Bounded /\ StartTracking(t, o)
    \/ \E c \in pending : StreamsBounded /\ GetUserMediaResolved(c)
    \/ \E c \in pending : GetUserMediaRejected(c)
    \/ \E c \in pending : TimersBounded /\ LoadedMetadata(c)
    \/ StopTracking
    \/ \E timer \in timers, now \in DateNow(State),
          g \in simulateGazeTracking(State),
          d \in SteadyDraws, l \in SteadyLoads :
            Tick(timer, now, g, d, l)

SpecOverlap == Init /\ [][NextOverlap]_vars

-----------------------------------------------------------------------------
(* The server: MemStorage and the handlers registered by registerRoutes.    *)
(* A Date is kept as the token "Date".                                      *)

NoContext == "undefined"
DefaultAttention == One \div 2
DefaultContext == "general learning"
DefaultUserId == 1

ScoreInputs == {Absent, 0, One \div 5}
ContextInputs == {NoContext, "algebra"}
UserIdInputs == {Absent, 2}
EventTypes == {"attention"}

(* completion.choices[0].message.content: JSON with a suggestion, or text   *)
(* JSON.parse rejects                                                       *)
LlmContents == {"suggestion", "unparsable"}

LlmRecommendation ==
    [ suggestion |-> "llm suggestion", explanation |-> "llm explanation",
      resourceLinks |-> << >>, type |-> "llm-generated" ]

FallbackRecommendation ==
    [ suggestion |-> "Based on your progress, I recommend continuing with the current concept.",
      explanation |-> "This recommendation is based on your current attention and mastery levels.",
      resourceLinks |-> << >>, type |-> "fallback" ]

Server ==
    [ learningEvents |-> learningEvents, currentEventId |-> currentEventId,
      inflight |-> inflight, response |-> response ]

Responds(V) ==
    /\ learningEvents' = V.learningEvents
    /\ currentEventId' = V.currentEventId
    /\ inflight' = V.inflight
    /\ response' = V.response
    /\ UNCHANGED clientVars

(* Map.set *)
MapSet(m, k, v) == [x \in DOMAIN m \cup {k} |-> IF x = k THEN v ELSE m[x]]

(* res.status(400).json({ error }) *)
BadRequest(route) ==
    [ status |-> 400, route |-> route, body |-> "error",
      llm |-> "none", llmCalls |-> 0, request |-> NoRequest ]

(* createLearningEvent without the ++ *)
createLearningEventReusesId(V, insertEvent) ==
    LET id == V.currentEventId
        event == Merge(insertEvent, [id |-> id])
    IN [V EXCEPT !.learningEvents = MapSet(@, id, event)]

(* MemStorage.createLearningEvent; the event it returns is the one stored   *)
(* under the id it took                                                     *)
createLearningEvent(V, insertEvent) ==
    LET id == V.currentEventId
        event == Merge(insertEvent, [id |-> id])
    IN [V EXCEPT !.currentEventId = @ + 1,
                 !.learningEvents = MapSet(@, id, event)]

NoEvent == [id |-> Absent]

(* MemStorage.getLearningEvent: Map.get, undefined for an unknown id *)
getLearningEvent(V, id) ==
    IF id \in DOMAIN V.learningEvents THEN V.learningEvents[id] ELSE NoEvent

(* POST /api/orchestration/next-step up to `await openai...create(...)`:     *)
(* the one place where the handler calls the LLM                            *)
nextStep(V, valid, score, context) ==
    IF ~valid THEN [V EXCEPT !.response = BadRequest("next-step")]
    ELSE LET attentionScore == IF score = Absent \/ score = 0
                               THEN DefaultAttention ELSE score
             ctx == IF context = NoContext THEN DefaultContext ELSE context
             call == [ id |-> FreshId({c.id : c \in V.inflight}),
                       route |-> "next-step",
                       request |-> [NoRequest EXCEPT !.score = score],
                       attentionScore |-> attentionScore,
                       context |-> ctx,
                       llmCalls |-> 1 ]
         IN [V EXCEPT !.inflight = @ \cup {call}]

(* the handler without its inner try/catch: the outer catch answers 400 *)
nextStepResumeUncaught(V, call, outcome) ==
    IF outcome = "suggestion"
    THEN LET V1 == createLearningEvent(V,
                     [ userId |-> DefaultUserId, type |-> "recommendation",
                       data |-> [ context |-> call.context,
                                  attentionScore |-> call.attentionScore,
                                  recommendation |-> LlmRecommendation.suggestion ],
                       timestamp |-> "Date" ])
         IN [V1 EXCEPT !.inflight = @ \ {call},
                       !.response = [ status |-> 200, route |-> "next-step",
                                      body |-> LlmRecommendation, llm |-> outcome,
                                      llmCalls |-> call.llmCalls,
                                      request |-> call.request ]]
    ELSE [V EXCEPT !.inflight = @ \ {call},
                   !.response = [BadRequest("next-step") EXCEPT
                                    !.llm = outcome, !.llmCalls = call.llmCalls]]

(* the rest of the handler, from the settling of the LLM call: outcome is   *)
(* what the call did, "throws" or the content of the completion             *)
nextStepResume(V, call, outcome) ==
    LET recommendation == IF outcome = "suggestion"
                          THEN LlmRecommendation
                          ELSE FallbackRecommendation
        V1 == createLearningEvent(V,
                [ userId |-> DefaultUserId, type |-> "recommendation",
                  data |-> [ context |-> call.context,
                             attentionScore |-> call.attentionScore,
                             recommendation |-> recommendation.suggestion ],
                  timestamp |-> "Date" ])
    IN [V1 EXCEPT !.inflight = @ \ {call},
                  !.response = [ status |-> 200, route |-> "next-step",
                                 body |-> recommendation, llm |-> outcome,
                                 llmCalls |-> call.llmCalls,
                                 request |-> call.request ]]

(* POST /api/learning/events *)
postLearningEvent(V, valid, userId, type) ==
    IF ~valid THEN [V EXCEPT !.response = BadRequest("events")]
    ELSE LET V1 == createLearningEvent(V,
                     [ userId |-> IF userId = Absent \/ userId = 0
                                  THEN DefaultUserId ELSE userId,
                       type |-> type, data |-> "data", timestamp |-> "Date" ])
         IN [V1 EXCEPT !.response =
                 [ status |-> 200, route |-> "events",
                   body |-> getLearningEvent(V1, V.currentEventId),
                   llm |-> "none", llmCalls |-> 0, request |-> NoRequest ]]

NextStep(valid, score, context) ==
    /\ Cardinality(inflight) < MaxInflight
    /\ Responds(nextStep(Server, valid, score, context))

CompletionArrives(call, content) ==
    /\ call \in inflight
    /\ call.route = "next-step"
    /\ currentEventId <= MaxEvents
    /\ Responds(nextStepResume(Server, call, content))

CompletionFails(call) ==
    /\ call \in inflight
    /\ call.route = "next-step"
    /\ currentEventId <= MaxEvents
    /\ Responds(nextStepResume(Server, call, "throws"))

PostLearningEvent(valid, userId, type) ==
    /\ currentEventId <= MaxEvents
    /\ Responds(postLearningEvent(Server, valid, userId, type))

GetLearningEvent(id) ==
    Responds([Server EXCEPT !.response =
                 [ status |-> 200, route |-> "getLearningEvent",
                   body |-> getLearningEvent(Server, id),
                   llm |-> "none", llmCalls |-> 0, request |-> NoRequest ]])

NextServer ==
    \/ \E valid \in BOOLEAN, score \in ScoreInputs, context \in ContextInputs :
          NextStep(valid, score, context)
    \/ \E call \in inflight, content \in LlmContents : CompletionArrives(call, content)
    \/ \E call \in inflight : CompletionFails(call)
    \/ \E valid \in BOOLEAN, userId \in UserIdInputs, type \in EventTypes :
          PostLearningEvent(valid, userId, type)
    \/ \E id \in 1..(MaxEvents + 1) : GetLearningEvent(id)

SpecServer == Init /\ [][NextServer]_vars

-----------------------------------------------------------------------------
(* POST /api/orchestration/engagement *)

DefaultEngagementAttention == (One * 3) \div 10

FixedSuggestions ==
    << "Would you like to take a quick 30-second break to refresh?",
       "Let's try a different approach to this concept. How about a visual example?",
       "Would it help to see a real-world application of this concept?",
       "Let's make this more interactive. Can you try solving a simple version of this problem?",
       "Sometimes a change of pace helps. Would you like to switch to a related topic and come back to this later?" >>

Range(seq) == {seq[i] : i \in 1..Len(seq)}

(* previousInterventions of a request: none, one or all but the last of the *)
(* fixed suggestions, all of them, and a text that is none of them         *)
PreviousInputs ==
    { {},
      {FixedSuggestions[1]},
      Range(FixedSuggestions) \ {Last(FixedSuggestions)},
      Range(FixedSuggestions),
      {"Take a walk."} }

(* completion.choices[0].message.content of the engagement prompt *)
EngagementContents == {"message", "unparsable"}

LlmEngagement ==
    [ message |-> "llm message", type |-> "micro-break", source |-> "llm-generated" ]

(* Math.random() in fifths: 0, 0.2, ..., 0.8 *)
RandomDraws == 0..(Len(FixedSuggestions) - 1)

(* Math.floor(Math.random() * length) *)
randomIndex(random, length) == (random * length) \div Cardinality(RandomDraws)

(* the fallback choosing among all five suggestions, whatever was used before *)
availableSuggestionsUnfiltered(previousInterventions) == FixedSuggestions

(* suggestions.filter(s => !previousInterventions.includes(s)), or all of   *)
(* them when that leaves none                                              *)
availableSuggestions(previousInterventions) ==
    LET unused(s) == s \notin previousInterventions
        filtered == SelectSeq(FixedSuggestions, unused)
    IN IF Len(filtered) = 0 THEN FixedSuggestions ELSE filtered

(* the handler up to `await openai...create(...)` *)
engagement(V, valid, score, context, previousInterventions) ==
    IF ~valid THEN [V EXCEPT !.response = BadRequest("engagement")]
    ELSE LET attentionScore == IF score = Absent \/ score = 0
                               THEN DefaultEngagementAttention ELSE score
             ctx == IF context = NoContext THEN DefaultContext ELSE context
             call == [ id |-> FreshId({c.id : c \in V.inflight}),
                       route |-> "engagement",
                       request |-> [ score |-> score,
                                     previousInterventions |-> previousInterventions ],
                       attentionScore |-> attentionScore,
                       context |-> ctx,
                       llmCalls |-> 1 ]
         IN [V EXCEPT !.inflight = @ \cup {call}]

(* the rest of the handler, from the settling of the LLM call; random is    *)
(* what Math.random() returns if the fallback is taken                     *)
engagementResume(V, call, outcome, random) ==
    LET available == availableSuggestions(call.request.previousInterventions)
        body == IF outcome = "message"
                THEN LlmEngagement
                ELSE [ message |-> available[randomIndex(random, Len(available)) + 1],
                       type |-> "attention-prompt", source |-> "fallback" ]
        V1 == createLearningEvent(V,
                [ userId |-> DefaultUserId, type |-> "engagement",
                  data |-> [ context |-> call.context,
                             attentionScore |-> call.attentionScore,
                             intervention |-> body.message ],
                  timestamp |-> "Date" ])
    IN [V1 EXCEPT !.inflight = @ \ {call},
                  !.response = [ status |-> 200, route |-> "engagement",
                                 body |-> body, llm |-> outcome,
                                 llmCalls |-> call.llmCalls,
                                 request |-> call.request ]]

Engagement(valid, score, context, previousInterventions) ==
    /\ Cardinality(inflight) < MaxInflight
    /\ Responds(engagement(Server, valid, score, context, previousInterventions))

EngagementCompletionArrives(call, content, random) ==
    /\ call \in inflight
    /\ call.route = "engagement"
    /\ currentEventId <= MaxEvents
    /\ Responds(engagementResume(Server, call, content, random))

EngagementCompletionFails(call, random) ==
    /\ call \in inflight
    /\ call.route = "engagement"
    /\ currentEventId <= MaxEvents
    /\ Responds(engagementResume(Server, call, "throws", random))

(* The inputs the fallback does not read, kept to one value where the      *)
(* fallback is what is looked at                                           *)
SteadyScores == {s \in ScoreInputs : s = Absent}
SteadyContexts == {c \in ContextInputs : c = NoContext}
SteadyPrevious == {p \in PreviousInputs : p = {}}

(* SpecEngagement: the engagement handler alone, over every input of       *)
(* previousInterventions and every draw of the fallback.                   *)
NextEngagement ==
    \/ \E valid \in BOOLEAN, score \in SteadyScores, context \in SteadyContexts,
          previous \in PreviousInputs :
            Engagement(valid, score, context, previous)
    \/ \E call \in inflight, content \in EngagementContents, random \in RandomDraws :
          EngagementCompletionArrives(call, content, random)
    \/ \E call \in inflight, random \in RandomDraws :
          EngagementCompletionFails(call, random)

SpecEngagement == Init /\ [][NextEngagement]_vars

(* SpecOrchestration: both orchestration handlers over every input of the  *)
(* attention score.                                                        *)
NextOrchestration ==
    \/ \E valid \in BOOLEAN, score \in ScoreInputs, context \in SteadyContexts :
          NextStep(valid, score, context)
    \/ \E valid \in BOOLEAN, score \in ScoreInputs, context \in SteadyContexts,
          previous \in SteadyPrevious :
            Engagement(valid, score, context, previous)
    \/ \E call \in inflight, content \in LlmContents : CompletionArrives(call, content)
    \/ \E call \in inflight : CompletionFails(call)
    \/ \E call \in inflight, content \in EngagementContents, random \in RandomDraws :
          EngagementCompletionArrives(call, content, random)
    \/ \E call \in inflight, random \in RandomDraws :
          EngagementCompletionFails(call, random)

SpecOrchestration == Init /\ [][NextOrchestration]_vars

(* SpecScore: the tracker without webcam and without observers, every tick *)
(* fed both ends of each Math.random() range, and restarted with a         *)
(* historySize override; the caller awaits every call.                     *)
ScoreOverrides == {[webcam |-> FALSE], [webcam |-> FALSE, historySize |-> 1]}

NextScore ==
    \/ \E t \in Targets, o \in ScoreOverrides : Awaited /\ StartTracking(t, o)
    \/ Awaited /\ StopTracking
    \/ \E timer \in timers, now \in DateNow(State),
          g \in simulateGazeTracking(State),
          l \in LoadDraws :
        \E d \in Draws(isGazeOnTarget(State, g)) :
            ticks < MaxScoreTicks /\ IntervalFires(timer, now, g, d, l)

SpecScore == Init /\ [][NextScore]_vars

(* SpecStability: calculateStabilityScore applied to a tracker whose       *)
(* history holds any window of up to MaxHistory scores.                    *)
StabilityScores == {0, One \div 2, One}

InitStability ==
    /\ isTracking = FALSE
    /\ webcamStream = NoStream
    /\ videoElement = NoVideo
    /\ trackingInterval = NoTimer
    /\ targetElement = NoTarget
    /\ changeCallbacks = << >>
    /\ attentionData = InitialAttentionData
    /\ attentionHistory \in BoundedSeq(StabilityScores, MaxHistory)
    /\ options = constructor(MaxHistory)
    /\ timers = {}
    /\ streams = {}
    /\ onloadedmetadata = NoCall
    /\ clock = 0
    /\ ticks = 0
    /\ pending = {}
    /\ observed = << >>
    /\ returns = NoReturn
    /\ calls = << >>
    /\ InitServer

CalculateStabilityScore ==
    /\ returns = NoReturn
    /\ Becomes(Settle(State, "calculateStabilityScore",
                      calculateStabilityScore(attentionHistory), FALSE))

SpecStability == InitStability /\ [][CalculateStabilityScore]_vars

-----------------------------------------------------------------------------
(* Properties *)

status == getCurrentData(State).status

(* the call that settled last is a startTracking that resolved to true *)
Started == returns.op = "startTracking" /\ returns.value = "true"

(* every variable of the tracker and of its environment; `returns` is the  *)
(* caller's                                                                *)
trackerVars == << isTracking, webcamStream, videoElement, trackingInterval,
                  targetElement, changeCallbacks, attentionData,
                  attentionHistory, options, timers, streams,
                  onloadedmetadata, clock, ticks, pending, observed, calls >>

(* two readings of a sample agree in everything but the status field *)
SameReading(a, b) == [a EXCEPT !.status = "any"] = [b EXCEPT !.status = "any"]

(* C1: the status getCurrentData reports is 'inactive' before the first    *)
(* startTracking and after every stopTracking, and 'tracking' from a       *)
(* startTracking that resolved to true until the next stopTracking.        *)
C1_StatusFollowsLifecycle ==
    /\ returns.op \in {"none", "stopTracking"} => status = "inactive"
    /\ Started => status = "tracking"

C1_Witness ==
    /\ returns.op = "stopTracking" /\ returns.wasTracking
    /\ ticks > 0
    /\ status = "inactive"

(* C2: once stopTracking has returned, and until a startTracking resolves  *)
(* to true, no interval is live, no tick runs and no observer is handed a  *)
(* sample.                                                                 *)
C2_NoTickAfterStop ==
    [][ ~Started =>
          /\ timers = {}
          /\ ticks' = ticks
          /\ \A i \in 1..Len(observed) : observed'[i] = observed[i] ]_vars

C2_Witness ==
    /\ returns.op = "stopTracking" /\ returns.wasTracking
    /\ Len(changeCallbacks) > 0
    /\ \A i \in 1..Len(observed) : observed[i].ref = ticks /\ ticks > 0

(* C3: startTracking on a tracker that is tracking resolves to true and    *)
(* changes nothing: no interval is added, the running one stays, and the   *)
(* history, the target and the options are as before.                      *)
C3_StartWhileTrackingIsNoOp ==
    [][ \A t \in Targets, o \in Overrides :
          (isTracking /\ StartTracking(t, o)) =>
              /\ returns'.op = "startTracking" /\ returns'.value = "true"
              /\ UNCHANGED trackerVars ]_vars

C3_Witness ==
    /\ returns = [op |-> "startTracking", value |-> "true", wasTracking |-> TRUE]
    /\ isTracking /\ timers = {trackingInterval}
    /\ attentionHistory # << >>

(* C4: stopTracking on a tracker that is not tracking throws nothing,      *)
(* changes nothing and leaves the status 'inactive'.                       *)
C4_StopWhileIdleIsNoOp ==
    [][ (~isTracking /\ StopTracking) =>
          /\ returns'.op = "stopTracking" /\ returns'.value = "void"
          /\ UNCHANGED trackerVars
          /\ status' = "inactive" ]_vars

C4_Witness ==
    /\ returns = [op |-> "stopTracking", value |-> "void", wasTracking |-> FALSE]
    /\ ~isTracking /\ status = "inactive"
    /\ attentionHistory # << >>

(* C5: every tick hands the new sample to every registered observer,       *)
(* whatever an observer throws; a throwing observer stays registered and   *)
(* the interval keeps running.                                             *)
C5_EveryObserverEveryTick ==
    [][ ticks' # ticks =>
          /\ changeCallbacks' = changeCallbacks
          /\ \A i \in 1..Len(changeCallbacks) :
                /\ observed'[i].ref = ticks'
                /\ SameReading(observed'[i].seen, attentionData')
          /\ ("stops" \notin {changeCallbacks[i] : i \in 1..Len(changeCallbacks)}
                => timers' = timers) ]_vars

C5_Witness ==
    /\ changeCallbacks = << "throws", "ok" >>
    /\ ticks >= 2
    /\ observed[1].ref = ticks /\ observed[2].ref = ticks
    /\ timers # {}

(* a suspended startTracking whose getUserMedia promise is rejected *)
CaptureFails ==
    \E c \in pending :
        /\ c.stage = "getUserMedia"
        /\ \A d \in pending' : d.id # c.id
        /\ streams' = streams

(* C6: when capture acquisition fails, startTracking resolves to false,    *)
(* the status stays 'inactive', no interval is scheduled, and no tick runs *)
(* after it.                                                               *)
C6_CaptureFailureReported ==
    [][ /\ CaptureFails =>
             /\ returns' = [op |-> "startTracking", value |-> "false",
                            wasTracking |-> FALSE]
             /\ status' = "inactive" /\ ~isTracking'
             /\ timers' = {} /\ trackingInterval' = NoTimer
        /\ returns.value = "false" => ticks' = ticks ]_vars

C6_Witness ==
    /\ returns.op = "startTracking" /\ returns.value = "false"
    /\ status = "inactive" /\ timers = {}
    /\ pending = {}

(* C7: a startTracking that resolves to false leaves the target, the       *)
(* options, the history and the current sample as they were when it was    *)
(* called.                                                                 *)
C7_FailedStartLeavesState ==
    [][ \A c \in pending :
          (c.stage = "getUserMedia" /\ c \notin pending'
             /\ returns'.value = "false") =>
              /\ targetElement' = c.entry.targetElement
              /\ options' = c.entry.options
              /\ attentionHistory' = c.entry.attentionHistory
              /\ attentionData' = c.entry.attentionData ]_vars

(* C8: after stopTracking has returned, and until the next startTracking  *)
(* is called, the tracker holds no stream and no stream it acquired has a  *)
(* live track.                                                             *)
C8_NoStreamAfterStop ==
    (returns.op = "stopTracking" /\ pending = {}) =>
        webcamStream = NoStream /\ streams = {} /\ videoElement = NoVideo

C8_Witness ==
    /\ returns.op = "stopTracking" /\ returns.wasTracking
    /\ WantsWebcam(options)
    /\ streams = {}

(* C9: after a stopTracking on a tracking tracker no target is bound.      *)
C9_StopClearsTarget ==
    (returns.op = "stopTracking" /\ returns.wasTracking) =>
        targetElement = NoTarget

(* C10: a startTracking that starts tracking starts from an empty history. *)
C10_RestartHasFreshHistory ==
    [][ (~isTracking /\ isTracking') => attentionHistory' = << >> ]_vars

(* C11: after every tick the history holds at most historySize scores.     *)
C11_HistoryWithinCapacity ==
    [][ ticks' # ticks => Len(attentionHistory') <= options'.historySize ]_vars

(* C12: the score, focusStability and cognitiveLoad of every sample the    *)
(* tracker holds lie in [0, 1].                                            *)
C12_SampleWithinUnitInterval ==
    /\ attentionData.score \in 0..One
    /\ attentionData.focusStability \in 0..StabUnit
    /\ attentionData.cognitiveLoad \in 0..One

(* a tick whose loss would have taken a positive score below 0 *)
C12_Witness ==
    /\ status = "tracking"
    /\ Len(attentionHistory) >= 2
    /\ attentionHistory[Len(attentionHistory) - 1] \in 1..(InattentiveLoss - 1)
    /\ attentionData.score = 0
    /\ attentionData.gazePoint = "elsewhere"

(* C13: with no target element bound, a tick never raises the score, never *)
(* takes it below 0, lowers it while it is above 0 and leaves it at 0.     *)
C13_UnboundTargetDecays ==
    [][ (ticks' # ticks /\ targetElement = NoTarget) =>
          /\ attentionData'.score <= attentionData.score
          /\ attentionData'.score >= 0
          /\ (attentionData.score > 0 => attentionData'.score < attentionData.score)
          /\ (attentionData.score = 0 => attentionData'.score = 0) ]_vars

(* a tick without target that lowered a positive score *)
C13_Witness ==
    /\ targetElement = NoTarget
    /\ status = "tracking"
    /\ attentionData.gazePoint = "viewportCenter"
    /\ Len(attentionHistory) >= 2
    /\ attentionHistory[Len(attentionHistory) - 1] > Last(attentionHistory)

clamp01(x) == Max(0, Min(One, x))

(* the tick in progress found the gaze inside the bound target *)
GazeOnTarget == targetElement # NoTarget /\ attentionData'.gazePoint = "nearTarget"

(* C16: a tick takes the score from prevScore to clamp01(prevScore + 0.05  *)
(* + r), r in [0, 0.02], when the gaze is on target, and to                *)
(* clamp01(prevScore - 0.08 - r), r in [0, 0.03], otherwise.               *)
C16_ScoreStep ==
    [][ ticks' # ticks =>
          LET prevScore == attentionData.score
          IN IF GazeOnTarget
             THEN \E r \in 0..2 :
                    attentionData'.score = clamp01(prevScore + AttentiveGain + r)
             ELSE \E r \in 0..3 :
                    attentionData'.score = clamp01(prevScore - InattentiveLoss - r) ]_vars

(* a gain followed by a loss that the clamp did not absorb *)
C16_Witness ==
    /\ ticks >= 3
    /\ Len(attentionHistory) >= 2
    /\ attentionData.gazePoint = "elsewhere"
    /\ Last(attentionHistory) > 0
    /\ attentionHistory[Len(attentionHistory) - 1] > Last(attentionHistory)

(* 5 * the population variance of a window, in units of 1 / StabUnit:      *)
(* 5 * (n * sum of squares - square of sum) / n^2                          *)
WeightedVariance(history) ==
    LET n == Len(history)
        k == HistoryLcm \div n
    IN VarianceWeight * k * k
         * (n * SumSquares(history) - SumSeq(history) * SumSeq(history))

Alternating(history) ==
    /\ history[1] \in {0, One}
    /\ \A i \in 1..Len(history) : history[i] = IF i % 2 = 1 THEN history[1]
                                               ELSE One - history[1]

(* C15: focusStability is clamp01(1 - 5 * population variance of the       *)
(* history), and 1 for fewer than 2 scores; equal scores give exactly 1 and*)
(* a window of at least 4 scores alternating between 0 and 1 gives less    *)
(* than 1.                                                                 *)
C15_StabilityIsClampedVariance ==
    returns.op = "calculateStabilityScore" =>
        LET n == Len(attentionHistory) IN
        /\ n < 2 => returns.value = StabUnit
        /\ n >= 2 => returns.value =
               Max(0, Min(StabUnit, StabUnit - WeightedVariance(attentionHistory)))
        /\ (\A i \in 1..n : attentionHistory[i] = attentionHistory[1])
               => returns.value = StabUnit
        /\ (n >= 4 /\ Alternating(attentionHistory)) => returns.value < StabUnit

(* an unequal window whose variance the clamp leaves alone *)
C15_Witness ==
    /\ returns.op = "calculateStabilityScore"
    /\ attentionHistory = << One \div 2, One, One \div 2 >>
    /\ returns.value \in 1..(StabUnit - 1)

(* C14: a tick invokes the registered observers before it ends, in the     *)
(* order of registration, each once, each with the sample the tick stored. *)
C14_ObserversInRegistrationOrder ==
    [][ ticks' # ticks =>
          /\ calls' = [i \in 1..Len(changeCallbacks) |-> i]
          /\ \A i \in 1..Len(changeCallbacks) :
                /\ observed'[i].ref = ticks'
                /\ SameReading(observed'[i].seen, attentionData')
                /\ observed'[i].seen.timestamp = clock' ]_vars

C14_Witness ==
    /\ ticks >= 1
    /\ Len(changeCallbacks) = 2
    /\ calls = << 1, 2 >>
    /\ observed[1].ref = ticks /\ observed[2].ref = ticks
    /\ observed[1].seen = observed[2].seen

(* some observer calls stopTracking from its callback *)
ObserverStops == \E i \in 1..Len(changeCallbacks) : changeCallbacks[i] = "stops"

(* C19: when an observer calls stopTracking during a tick, the tick still  *)
(* hands its sample to every observer, no interval is left to fire and the *)
(* tracker ends with status 'inactive'.                                    *)
C19_StopFromObserver ==
    [][ (ticks' # ticks /\ ObserverStops) =>
          /\ \A i \in 1..Len(changeCallbacks) :
                /\ observed'[i].ref = ticks'
                /\ SameReading(observed'[i].seen, attentionData')
          /\ timers' = {}
          /\ trackingInterval' = NoTimer
          /\ ~isTracking'
          /\ attentionData'.status = "inactive" ]_vars

C19_Witness ==
    /\ changeCallbacks = << "stops", "ok" >>
    /\ ticks >= 1
    /\ calls = << 1, 2 >>
    /\ observed[1].seen.status = "tracking"
    /\ observed[2].ref = ticks
    /\ timers = {}
    /\ status = "inactive"

(* C17: when the LLM call of a valid next-step request throws or returns   *)
(* content that does not parse, the handler answers 200 with the fixed     *)
(* suggestion of type 'fallback', stores that suggestion, and has called   *)
(* the LLM once.                                                           *)
C17_FallbackOnLlmFailure ==
    (response.route = "next-step" /\ response.llm \in {"throws", "unparsable"}) =>
        /\ response.status = 200
        /\ response.body = FallbackRecommendation
        /\ response.body.type = "fallback"
        /\ response.llmCalls = 1
        /\ getLearningEvent(Server, currentEventId - 1).data.recommendation
             = FallbackRecommendation.suggestion

C17_Witness ==
    /\ response.route = "next-step"
    /\ response.llm = "unparsable"
    /\ response.status = 200
    /\ currentEventId = 3
    /\ learningEvents[1].type = "recommendation"
    /\ learningEvents[1].data.recommendation = LlmRecommendation.suggestion
    /\ learningEvents[2].data.recommendation = FallbackRecommendation.suggestion

(* the store holds exactly the ids handed out so far, each with its event *)
IdsInUse ==
    /\ currentEventId >= 1
    /\ DOMAIN learningEvents = 1..(currentEventId - 1)
    /\ \A id \in DOMAIN learningEvents : getLearningEvent(Server, id).id = id

(* C18: createLearningEvent hands out the ids 1, 2, 3, ... in order and    *)
(* never again, getLearningEvent(id) returns the event created with that   *)
(* id, and no operation changes or removes a stored event.                 *)
C18_AppendOnlyStore ==
    [][ /\ IdsInUse
        /\ \A id \in DOMAIN learningEvents :
              /\ id \in DOMAIN learningEvents'
              /\ learningEvents'[id] = learningEvents[id]
        /\ currentEventId' \in {currentEventId, currentEventId + 1}
        /\ currentEventId' = currentEventId => learningEvents' = learningEvents
        /\ currentEventId' = currentEventId + 1 =>
              /\ DOMAIN learningEvents' = 1..currentEventId
              /\ learningEvents'[currentEventId].id = currentEventId
              /\ response'.route = "events" =>
                    response'.body = learningEvents'[currentEventId]
        /\ response'.route = "getLearningEvent" /\ response'.body # NoEvent =>
              /\ response'.body.id \in DOMAIN learningEvents
              /\ response'.body = learningEvents[response'.body.id] ]_vars

C18_Witness ==
    /\ currentEventId = 3
    /\ learningEvents[1].type = "attention"
    /\ learningEvents[2].type = "recommendation"
    /\ response.route = "getLearningEvent"
    /\ response.body = learningEvents[1]

(* C20: however startTracking and stopTracking calls interleave, at most   *)
(* one interval is live at a time, and once stopTracking has returned with *)
(* no startTracking suspended no interval is live.                         *)
C20_AtMostOneTimer ==
    /\ Cardinality(timers) <= 1
    /\ (returns.op = "stopTracking" /\ pending = {}) => timers = {}

(* C21: a tracker that is not tracking and has no startTracking suspended  *)
(* holds no webcam stream and no interval: none in its fields, no live     *)
(* track and no interval left to fire.                                     *)
C21_IdleHoldsNothing ==
    (~isTracking /\ pending = {}) =>
        /\ webcamStream = NoStream
        /\ trackingInterval = NoTimer
        /\ streams = {}
        /\ timers = {}

(* observer i was handed the object this.attentionData refers to now: no   *)
(* tick has replaced it since                                              *)
HoldsCurrentObject(i) == ticks > 0 /\ observed[i].ref = ticks

(* C22: the sample an observer was handed still reads, field by field and  *)
(* in its status in particular, as it did when it was delivered.           *)
C22_DeliveredSampleUnchanged ==
    \A i \in 1..Len(observed) :
        HoldsCurrentObject(i) => attentionData = observed[i].seen

(* C23: while the tracker is tracking, the sample a tick emits has a       *)
(* timestamp greater than that of the sample the tick before it emitted.   *)
C23_TimestampsIncrease ==
    [][ (ticks' # ticks /\ ticks > 0 /\ isTracking) =>
          attentionData'.timestamp > attentionData.timestamp ]_vars

(* C24: when the LLM call of an engagement request fails, the message sent *)
(* is one of the five fixed suggestions, and it is one of the request's    *)
(* previousInterventions only if all five are.                             *)
C24_FallbackAvoidsRepeats ==
    (response.route = "engagement" /\ response.llm \in {"throws", "unparsable"}) =>
        /\ response.status = 200
        /\ response.body.source = "fallback"
        /\ response.body.message \in Range(FixedSuggestions)
        /\ response.body.message \in response.request.previousInterventions
              => Range(FixedSuggestions) \subseteq response.request.previousInterventions
        /\ getLearningEvent(Server, currentEventId - 1).data.intervention
              = response.body.message

(* four of the five were used before: the fallback sends the fifth *)
C24_Witness ==
    /\ response.route = "engagement"
    /\ response.llm = "throws"
    /\ Cardinality(response.request.previousInterventions) = Len(FixedSuggestions) - 1
    /\ response.body.message = Last(FixedSuggestions)

(* the learning event the handler that answered last has stored *)
StoredEvent == getLearningEvent(Server, currentEventId - 1)

(* C25: an orchestration request that carries an attention score has that  *)
(* score put in the LLM prompt and stored in its learning event; the       *)
(* default stands in only for a request without score.                     *)
C25_ScorePassedThrough ==
    /\ \A call \in inflight :
          call.request.score # Absent => call.attentionScore = call.request.score
    /\ (response.status = 200 /\ response.route \in {"next-step", "engagement"}
          /\ response.request.score # Absent)
            => StoredEvent.data.attentionScore = response.request.score

=============================================================================
